---- MODULE Spec2Model ----
(***************************************************************************)
(* State-machine model of horovod.spark.torch.estimator (TorchEstimator,   *)
(* TorchModel and their parameter (de)serialisation) and of the parameter  *)
(* registry horovod.spark.common.params.                                   *)
(*                                                                         *)
(* Five specifications share the variables:                                *)
(*   Spec          TorchEstimator._fit / _fit_on_parquet                   *)
(*   SpecCtor      TorchEstimator.__init__ and the setters                 *)
(*   SpecTransform TorchModel._transform over partitions                   *)
(*   SpecDecode    TorchModel._transform on one row, every model           *)
(*   SpecPersist   _torch_param_serialize / _deserialize_dict              *)
(*                                                                         *)
(* Python values: an Optional is a sequence of length at most one          *)
(* (None == <<>>, a value x is <<x>>), so that None compares with any      *)
(* value.                                                                  *)
(***************************************************************************)
EXTENDS Integers, Sequences, FiniteSets, TLC

VARIABLES est, store, fit, calls, ctor, tm, df, tr, parts, outs, inst, written, readBack

vars == <<est, store, fit, calls, ctor, tm, df, tr, parts, outs, inst, written, readBack>>

fitVars == <<est, store, fit, calls>>
ctorVars == <<ctor>>
transformVars == <<tm, df, tr, parts, outs>>
persistVars == <<inst, written, readBack>>

(***************************************************************************)
(* Bounds of the model.                                                    *)
(***************************************************************************)
MaxProc == 2
MaxWorkers == 2
MaxLossLen == 2
MaxParts == 2
MaxRows == 2
MaxCalls == 2
VecShape == 2

None == <<>>
Some(x) == <<x>>
Val(o) == o[1]

(***************************************************************************)
(* horovod.run.common.util.codec and torch.save / torch.load: an encoding  *)
(* wraps the object, decoding unwraps it.                                  *)
(***************************************************************************)
DumpsBase64(obj) == [b64 |-> obj]
LoadsBase64(s) == s.b64

TorchSave(obj) == [fmt |-> "pt", obj |-> obj]
Corrupt == [fmt |-> "junk", obj |-> "junk"]
TorchLoadable(bytes) == bytes.fmt = "pt"
TorchLoad(bytes) == bytes.obj

Serialize(model) == [ser |-> model]
Deserialize(s) == s.ser

(***************************************************************************)
(* Run identifiers: "R1" is given by the user, TimeRunId is               *)
(* 'pytorch_' + str(int(time.time())) at the time of the call.             *)
(***************************************************************************)
UserRunIds == {"R1"}
TimeRunId == "pytorch_<now>"
RunIds == UserRunIds \cup {TimeRunId}

(***************************************************************************)
(* The checkpoint store: get_checkpoint_path, exists, read.                *)
(***************************************************************************)
CheckpointStates == {"s1", "s2"}
FileContents == {None, Some(Corrupt)} \cup {Some(TorchSave(s)) : s \in CheckpointStates}
Stores == [save_runs : BOOLEAN, files : [RunIds -> FileContents]]

GetCheckpointPath(st, run_id) == IF st.save_runs THEN Some(run_id) ELSE None
Exists(st, path) == st.files[path] # None
Read(st, path) == Val(st.files[path])

(***************************************************************************)
(* Execution backends.                                                     *)
(***************************************************************************)
SparkBackend(n) == [kind |-> "spark", n |-> n]
UserBackend(n) == [kind |-> "user", n |-> n]
BackendNumProcesses(b) == b.n

(***************************************************************************)
(* Values the collaborators hand back.                                     *)
(***************************************************************************)
Nets == {"net1", "net2"}
Histories == {"h1", "h2"}
Optimizers == {"opt1", "opt2"}
Metadatas == {"meta1"}
RunResults == [history : Histories,
               serialized_model : {DumpsBase64(m) : m \in Nets},
               serialized_optimizer : {DumpsBase64(TorchSave(o)) : o \in Optimizers}]
RunResultSeqs == UNION {[1..n -> RunResults] : n \in 0..MaxWorkers}

(***************************************************************************)
(* Values of the variables a specification does not use.                   *)
(***************************************************************************)
IdleFit == /\ est = None /\ store = None /\ fit = None /\ calls = <<>>
IdleCtor == ctor = None
IdleTransform == /\ tm = None /\ df = <<>> /\ tr = None /\ parts = <<>> /\ outs = <<>>
IdlePersist == /\ inst = None /\ written = None /\ readBack = None

(***************************************************************************)
(* TorchEstimator._fit, _fit_on_parquet, _fit_on_prepared_data.            *)
(***************************************************************************)
Estimators == [num_proc : {None} \cup {Some(n) : n \in 1..MaxProc},
               backend : {None} \cup {Some(UserBackend(n)) : n \in 1..MaxProc},
               model : {None} \cup {Some(m) : m \in {"net0"}},
               run_id : {None} \cup {Some(r) : r \in UserRunIds},
               feature_cols : {<<"f">>},
               label_cols : {<<"y">>},
               input_shapes : {<<1>>}]

NewFrame == [pc |-> "Configuring", entry |-> "", backend |-> None,
             num_processes |-> None, metadata |-> None, run_id |-> None,
             last_checkpoint_state |-> None, serialized_model |-> None,
             trainer |-> None, run_results |-> <<>>, result |-> None,
             error |-> "", stages |-> <<>>]

InitFit == /\ est \in Estimators
           /\ store \in {None} \cup {Some(s) : s \in Stores}
           /\ fit = NewFrame
           /\ calls = <<>>
           /\ IdleCtor /\ IdleTransform /\ IdlePersist

\* an exception leaves the method: nothing in _fit or _fit_on_prepared_data catches it
Raise_retry(frame, err) == [fit EXCEPT !.error = err]
Raise(frame, err) == [frame EXCEPT !.pc = "Failed", !.error = err]
Reach(frame, stage) == [frame EXCEPT !.pc = stage, !.stages = Append(@, stage)]

\* estimator.py:195  (num_processes is None) == (backend is None)
BackendConflict_neither(num_processes, backend) == (num_processes = None) /\ (backend = None)
BackendConflict(num_processes, backend) == (num_processes = None) = (backend = None)

\* estimator.py:194-201
Fit_ResolveBackend ==
    /\ fit.pc = "Configuring"
    /\ LET num_processes == est.num_proc
           backend == est.backend
           frame == [fit EXCEPT !.entry = "fit"]
       IN  IF BackendConflict(num_processes, backend)
           THEN /\ fit' = Raise(frame, "ValueError: num_proc/backend")
                /\ calls' = calls
           ELSE IF backend = None
           THEN /\ fit' = Reach([frame EXCEPT !.backend = Some(SparkBackend(Val(num_processes))),
                                              !.num_processes = num_processes],
                                "BackendResolved")
                /\ calls' = Append(calls, "SparkBackend")
           ELSE IF num_processes = None
           THEN /\ fit' = Reach([frame EXCEPT !.backend = backend,
                                              !.num_processes = Some(BackendNumProcesses(Val(backend)))],
                                "BackendResolved")
                /\ calls' = Append(calls, "num_processes")
           ELSE /\ fit' = Reach([frame EXCEPT !.backend = backend,
                                              !.num_processes = num_processes],
                                "BackendResolved")
                /\ calls' = calls
    /\ UNCHANGED <<est, store, ctorVars, transformVars, persistVars>>

\* estimator.py:203-212  util.prepare_data
Fit_PrepareData ==
    /\ fit.pc = "BackendResolved"
    /\ calls' = Append(calls, "prepare_data")
    /\ \/ fit' = Raise(fit, "DataPreparationError")
       \/ \E md \in Metadatas : fit' = Reach([fit EXCEPT !.metadata = Some(md)], "DataPrepared")
    /\ UNCHANGED <<est, store, ctorVars, transformVars, persistVars>>

\* estimator.py:169-182  _fit_on_parquet
FitOnParquet_GetMeta ==
    /\ fit.pc = "Configuring"
    /\ calls' = Append(calls, "get_simple_meta_from_parquet")
    /\ LET frame == [fit EXCEPT !.entry = "fit_on_parquet", !.backend = est.backend]
       IN  \/ fit' = Raise(frame, "DataPreparationError")
           \/ \E md \in Metadatas : fit' = Reach([frame EXCEPT !.metadata = Some(md)], "DataPrepared")
    /\ UNCHANGED <<est, store, ctorVars, transformVars, persistVars>>

\* estimator.py:218  not model_pre_train
ModelMissing_unchecked(model) == FALSE
ModelMissing(model) == model = None

\* estimator.py:217-219
Fit_CheckModel ==
    /\ fit.pc = "DataPrepared"
    /\ fit' = IF ModelMissing(est.model)
              THEN Raise(fit, "ValueError: Model parameter is required")
              ELSE Reach(fit, "ModelChecked")
    /\ UNCHANGED <<est, store, calls, ctorVars, transformVars, persistVars>>

\* estimator.py:221, 157-161  util.check_shape_compatibility
Fit_CheckShape ==
    /\ fit.pc = "ModelChecked"
    /\ calls' = Append(calls, "check_shape_compatibility")
    /\ \/ fit' = Raise(fit, "IncompatibleShapeError")
       \/ fit' = Reach(fit, "ShapeChecked")
    /\ UNCHANGED <<est, store, ctorVars, transformVars, persistVars>>

\* estimator.py:239-242  _has_checkpoint
HasCheckpoint_noexists(st, run_id) == GetCheckpointPath(st, run_id) # None
HasCheckpoint(st, run_id) ==
    LET last_ckpt_path == GetCheckpointPath(st, run_id)
    IN  last_ckpt_path # None /\ Exists(st, Val(last_ckpt_path))

\* the store calls _has_checkpoint makes: `and` does not evaluate exists on a null path
HasCheckpointCalls(st, run_id) ==
    IF GetCheckpointPath(st, run_id) # None
    THEN <<"get_checkpoint_path", "exists">>
    ELSE <<"get_checkpoint_path">>

\* estimator.py:223-229, 244-252
Fit_ResolveCheckpoint ==
    /\ fit.pc = "ShapeChecked"
    /\   LET run_id == IF est.run_id = None THEN TimeRunId ELSE Val(est.run_id)
             frame == [fit EXCEPT !.run_id = Some(run_id)]
         IN  IF store = None
             THEN /\ fit' = Raise(frame, "AttributeError")
                  /\ calls' = calls
             ELSE LET st == Val(store)
                      probed == calls \o HasCheckpointCalls(st, run_id)
                  IN  IF ~HasCheckpoint(st, run_id)
                      THEN /\ fit' = Reach(frame, "CheckpointResolved")
                           /\ calls' = probed
                      ELSE LET last_ckpt_path == GetCheckpointPath(st, run_id)
                           IN  IF last_ckpt_path = None
                               THEN /\ fit' = Raise(frame, "TypeError")
                                    /\ calls' = probed \o <<"get_checkpoint_path", "read">>
                               ELSE IF ~Exists(st, Val(last_ckpt_path))
                               THEN /\ fit' = Raise(frame, "FileNotFoundError")
                                    /\ calls' = probed \o <<"get_checkpoint_path", "read">>
                               ELSE IF ~TorchLoadable(Read(st, Val(last_ckpt_path)))
                               THEN /\ fit' = Raise(frame, "CheckpointReadError")
                                    /\ calls' = probed \o <<"get_checkpoint_path", "read", "torch.load">>
                               ELSE /\ fit' = Reach([frame EXCEPT !.last_checkpoint_state =
                                                        Some(TorchLoad(Read(st, Val(last_ckpt_path))))],
                                                    "CheckpointResolved")
                                    /\ calls' = probed \o <<"get_checkpoint_path", "read", "torch.load">>
    /\ UNCHANGED <<est, store, ctorVars, transformVars, persistVars>>

\* estimator.py:233  remote.RemoteTrainer(self, metadata, last_checkpoint_state, run_id)
RemoteTrainer(estimator, metadata, last_checkpoint_state, run_id) ==
    [estimator |-> estimator, metadata |-> metadata,
     last_checkpoint_state |-> last_checkpoint_state, run_id |-> run_id]

\* estimator.py:231-236
Fit_Dispatch ==
    /\ fit.pc = "CheckpointResolved"
    /\ LET frame == [fit EXCEPT !.serialized_model = Some(Serialize(Val(est.model))),
                                !.trainer = Some(RemoteTrainer(est, Val(fit.metadata),
                                                               fit.last_checkpoint_state,
                                                               Val(fit.run_id)))]
       IN  IF fit.backend = None
           THEN /\ fit' = Raise(frame, "AttributeError")
                /\ calls' = Append(calls, "serialize")
           ELSE /\ calls' = calls \o <<"serialize", "backend.run">>
                /\ \/ fit' = Raise(frame, "BackendExecutionError")
                   \/ \E rr \in RunResultSeqs :
                        fit' = Reach([frame EXCEPT !.run_results = rr], "Dispatched")
    /\ UNCHANGED <<est, store, ctorVars, transformVars, persistVars>>

\* estimator.py:255  run_results[0]
CanonicalResult_last(run_results) == run_results[Len(run_results)]
CanonicalResult(run_results) == run_results[1]

\* estimator.py:269-277  _get_model_kwargs
GetModelKwargs(model, history, optimizer, run_id, metadata) ==
    [history |-> history, model |-> model, optimizer |-> optimizer,
     feature_columns |-> est.feature_cols, input_shapes |-> est.input_shapes,
     label_columns |-> est.label_cols, run_id |-> run_id, metadata |-> metadata]

\* estimator.py:254-264
Fit_CreateModel ==
    /\ fit.pc = "Dispatched"
    /\ IF fit.run_results = <<>>
       THEN fit' = Raise(fit, "IndexError")
       ELSE LET r == CanonicalResult(fit.run_results)
                model == LoadsBase64(r.serialized_model)
                optimizer_bio == LoadsBase64(r.serialized_optimizer)
                opt == TorchLoad(optimizer_bio)
            IN  fit' = Reach([fit EXCEPT !.result =
                                 Some(GetModelKwargs(model, r.history, opt,
                                                     Val(fit.run_id), Val(fit.metadata)))],
                             "ModelBuilt")
    /\ UNCHANGED <<est, store, calls, ctorVars, transformVars, persistVars>>

NextFit == \/ Fit_ResolveBackend
           \/ Fit_PrepareData
           \/ FitOnParquet_GetMeta
           \/ Fit_CheckModel
           \/ Fit_CheckShape
           \/ Fit_ResolveCheckpoint
           \/ Fit_Dispatch
           \/ Fit_CreateModel

Spec == InitFit /\ [][NextFit]_vars

(***************************************************************************)
(* Properties of fit.                                                      *)
(***************************************************************************)
Count(c) == Cardinality({i \in DOMAIN calls : calls[i] = c})
Called(c) == Count(c) > 0
Before(a, b) == \E i, j \in DOMAIN calls : i < j /\ calls[i] = a /\ calls[j] = b
StoreCalls == {"get_checkpoint_path", "exists", "read", "torch.load"}
FitStages == <<"BackendResolved", "DataPrepared", "ModelChecked", "ShapeChecked",
               "CheckpointResolved", "Dispatched", "ModelBuilt">>

\* C1: fit on a dataframe with both or neither of num_proc and backend fails with
\* the configuration error before any collaborator (prepare_data, backend.run) is
\* invoked; with exactly one of them that error is not raised, a null backend is
\* replaced by SparkBackend(num_proc) and a null num_proc is read from the backend.
C1_ExactlyOneOfNumProcAndBackend ==
    fit.entry = "fit" =>
       /\ ((est.num_proc = None) = (est.backend = None)) =>
             /\ fit.pc = "Failed"
             /\ fit.error = "ValueError: num_proc/backend"
             /\ calls = <<>>
             /\ fit.stages = <<>>
       /\ ((est.num_proc = None) # (est.backend = None)) =>
             /\ fit.error # "ValueError: num_proc/backend"
             /\ est.backend = None =>
                   /\ fit.backend = Some([kind |-> "spark", n |-> Val(est.num_proc)])
                   /\ fit.num_processes = est.num_proc
             /\ est.num_proc = None =>
                   /\ fit.backend = est.backend
                   /\ fit.num_processes = Some(Val(est.backend).n)

C1_Witness ==
    /\ fit.entry = "fit" /\ est.num_proc # None /\ est.backend # None
    /\ fit.pc = "Failed" /\ fit.error = "ValueError: num_proc/backend"

\* C2 as stated: in a fit whose model is null neither prepare_data, nor the
\* checkpoint store, nor backend.run is ever invoked.
C2_NullModelFailsBeforePreparation ==
    (fit.entry = "fit" /\ est.model = None) =>
        /\ ~Called("prepare_data")
        /\ \A c \in StoreCalls : ~Called(c)
        /\ ~Called("backend.run")

\* C2 amended: in a fit whose model is null the checkpoint store and backend.run
\* are never invoked and no stage after DataPrepared is reached; the model check
\* runs after data preparation, so the model-required error is raised only after
\* prepare_data was invoked and succeeded.
C2_NullModelFailsBeforeCheckpoint ==
    (fit.entry = "fit" /\ est.model = None) =>
        /\ \A c \in StoreCalls : ~Called(c)
        /\ ~Called("backend.run")
        /\ ~Called("check_shape_compatibility")
        /\ fit.pc \in {"Configuring", "BackendResolved", "DataPrepared", "Failed"}
        /\ fit.result = None
        /\ fit.error = "ValueError: Model parameter is required" =>
              /\ Count("prepare_data") = 1
              /\ fit.stages = <<"BackendResolved", "DataPrepared">>
        /\ (fit.pc = "Failed" /\ fit.stages = <<"BackendResolved", "DataPrepared">>) =>
              fit.error = "ValueError: Model parameter is required"

C2_Witness ==
    /\ fit.entry = "fit" /\ est.model = None
    /\ fit.pc = "Failed" /\ fit.error = "ValueError: Model parameter is required"
    /\ Called("prepare_data")

\* C3: the built model's history, model and optimizer are those of run_results[0]
\* (rank 0), decoded; no other worker's result has any influence.
C3_CanonicalResultOnly ==
    fit.pc = "ModelBuilt" =>
        LET built == Val(fit.result)
            first == Head(fit.run_results)
        IN  /\ built.history = first.history
            /\ [b64 |-> built.model] = first.serialized_model
            /\ [b64 |-> [fmt |-> "pt", obj |-> built.optimizer]] = first.serialized_optimizer

C3_Witness ==
    /\ fit.pc = "ModelBuilt"
    /\ Len(fit.run_results) >= 2
    /\ fit.run_results[1].history # fit.run_results[2].history
    /\ fit.run_results[1].serialized_model # fit.run_results[2].serialized_model
    /\ fit.run_results[1].serialized_optimizer # fit.run_results[2].serialized_optimizer

\* C4: when the store has a non-null checkpoint path for the run id and the path
\* exists, the checkpoint is read and decoded before backend.run and the decoded
\* state is the last_checkpoint_state of the dispatched trainer; when the path is
\* null or missing the store is never read and last_checkpoint_state is null; a
\* fit that fails while resolving the checkpoint fails because the checkpoint
\* cannot be decoded, never because it exists.
C4_CheckpointResolvedBeforeDispatch ==
    (store # None /\ fit.run_id # None) =>
        LET st == Val(store)
            file == st.files[Val(fit.run_id)]
            present == st.save_runs /\ file # None
        IN  /\ Called("backend.run") =>
                IF present
                THEN /\ Before("read", "torch.load")
                     /\ Before("torch.load", "backend.run")
                     /\ Val(fit.trainer).last_checkpoint_state # None
                     /\ [fmt |-> "pt", obj |-> Val(Val(fit.trainer).last_checkpoint_state)]
                           = Val(file)
                ELSE /\ ~Called("read")
                     /\ Val(fit.trainer).last_checkpoint_state = None
            /\ ~present => ~Called("read") /\ fit.last_checkpoint_state = None
            /\ (fit.pc = "Failed" /\ fit.stages # <<>>
                  /\ fit.stages[Len(fit.stages)] = "ShapeChecked") =>
                    /\ present
                    /\ Val(file).fmt # "pt"
                    /\ fit.error = "CheckpointReadError"

C4_Witness ==
    /\ fit.pc = "Dispatched"
    /\ est.run_id = Some("R1")
    /\ Val(fit.trainer).last_checkpoint_state = Some("s1")

\* C6: backend.run is invoked at most once, exactly once when fit ends in
\* ModelBuilt, and in fit only after backend resolution, data preparation, the
\* model check, the shape check and checkpoint resolution succeeded in that order;
\* no collaborator is invoked twice; a failed fit has built no model, keeps its
\* error and takes no further step.
C6_SingleDispatchNoRetry ==
    /\ [](/\ Count("backend.run") <= 1
          /\ fit.pc = "ModelBuilt" => Count("backend.run") = 1
          /\ (fit.entry = "fit" /\ Called("backend.run")) =>
                /\ Len(fit.stages) >= 5
                /\ SubSeq(fit.stages, 1, 5) = SubSeq(FitStages, 1, 5)
          /\ fit.entry = "fit" => fit.stages = SubSeq(FitStages, 1, Len(fit.stages))
          /\ \A c \in {"prepare_data", "check_shape_compatibility", "exists", "read",
                       "torch.load", "serialize", "SparkBackend", "num_processes"} :
                Count(c) <= 1
          /\ fit.pc = "Failed" => fit.result = None /\ fit.error # ""
          /\ fit.pc = "ModelBuilt" <=> fit.result # None)
    /\ [][fit.pc = "Failed" => fit' = fit /\ calls' = calls]_vars

C6_Witness ==
    /\ fit.entry = "fit"
    /\ fit.pc = "Failed"
    /\ fit.error = "BackendExecutionError"
    /\ Count("backend.run") = 1

(***************************************************************************)
(* TorchEstimator.__init__ and the setters of EstimatorParams.             *)
(*                                                                         *)
(* A Python value given for loss or loss_constructor is None, a scalar     *)
(* (one loss function), a list or a tuple.  Keyword arguments are a        *)
(* function whose domain is the set of keywords actually passed            *)
(* (self._input_kwargs of @keyword_only).                                  *)
(***************************************************************************)
PyNone == [kind |-> "none", name |-> "", items |-> <<>>]
PyScalar(n) == [kind |-> "scalar", name |-> n, items |-> <<>>]
PyList(xs) == [kind |-> "list", name |-> "", items |-> xs]
PyTuple(xs) == [kind |-> "tuple", name |-> "", items |-> xs]

LossFns == {"mse", "nll"}
ScalarSeqs == UNION {[1..n -> {PyScalar(f) : f \in LossFns}] : n \in 0..MaxLossLen}
LossValues == {PyNone} \cup {PyScalar(f) : f \in LossFns}
                \cup {PyList(xs) : xs \in ScalarSeqs} \cup {PyTuple(xs) : xs \in ScalarSeqs}
LossKeys == {"loss", "loss_constructor"}
Kwargs == UNION {[D -> LossValues] : D \in SUBSET LossKeys}
NoParams == [k \in {} |-> PyNone]

\* estimator.py:119
LossConflict(kwargs) == "loss" \in DOMAIN kwargs /\ "loss_constructor" \in DOMAIN kwargs

\* estimator.py:123, 127  isinstance(v, list) or isinstance(v, tuple)
IsListOrTuple_listonly(v) == v.kind = "list"
IsListOrTuple(v) == v.kind = "list" \/ v.kind = "tuple"

\* estimator.py:122-129
NormalizeKwargs(kwargs) ==
    [k \in DOMAIN kwargs |-> IF IsListOrTuple(kwargs[k]) THEN kwargs[k] ELSE PyList(<<kwargs[k]>>)]

\* params.py:100-102  Params._set(**kwargs)
SetAll(paramMap, kwargs) ==
    [k \in DOMAIN paramMap \cup DOMAIN kwargs |->
        IF k \in DOMAIN kwargs THEN kwargs[k] ELSE paramMap[k]]

\* params.py:71-95, estimator.py:115  getOrDefault with the defaults loss=None, loss_constructor=None
GetOrDefault(paramMap, k) == IF k \in DOMAIN paramMap THEN paramMap[k] ELSE PyNone

\* ctor.given holds the keyword arguments of the constructor call until a setter runs
InitCtor == /\ ctor = [phase |-> "new", given |-> NoParams, paramMap |-> NoParams, error |-> ""]
            /\ IdleFit /\ IdleTransform /\ IdlePersist

\* estimator.py:114-131
Construct ==
    /\ ctor.phase = "new"
    /\ \E given \in Kwargs :
         ctor' = IF LossConflict(given)
                 THEN [ctor EXCEPT !.phase = "error", !.given = given,
                                   !.error = "ValueError: loss/loss_constructor"]
                 ELSE LET kwargs == NormalizeKwargs(given)
                      IN  [ctor EXCEPT !.phase = "constructed", !.given = given,
                                       !.paramMap = SetAll(ctor.paramMap, kwargs)]
    /\ UNCHANGED <<fitVars, transformVars, persistVars>>

\* params.py:128-129
SetLoss ==
    /\ ctor.phase \in {"constructed", "modified"}
    /\ \E value \in LossValues :
         ctor' = [ctor EXCEPT !.phase = "modified", !.given = NoParams,
                              !.paramMap = SetAll(ctor.paramMap, [k \in {"loss"} |-> value])]
    /\ UNCHANGED <<fitVars, transformVars, persistVars>>

\* params.py:100-102
SetParams ==
    /\ ctor.phase \in {"constructed", "modified"}
    /\ \E kwargs \in Kwargs :
         ctor' = [ctor EXCEPT !.phase = "modified", !.given = NoParams,
                              !.paramMap = SetAll(ctor.paramMap, kwargs)]
    /\ UNCHANGED <<fitVars, transformVars, persistVars>>

\* estimator.py:164-165  self.copy(params): the copy carries the parameter map with
\* the overrides merged in and becomes the configuration that is fitted
CopyWithOverrides ==
    /\ ctor.phase \in {"constructed", "modified"}
    /\ \E params \in Kwargs :
         /\ params # NoParams
         /\ ctor' = [ctor EXCEPT !.phase = "modified", !.given = NoParams,
                                 !.paramMap = SetAll(ctor.paramMap, params)]
    /\ UNCHANGED <<fitVars, transformVars, persistVars>>

NextCtor == Construct \/ SetLoss \/ SetParams \/ CopyWithOverrides

SpecCtor == InitCtor /\ [][NextCtor]_vars

\* C5: constructing with both loss and loss_constructor raises the configuration
\* error and produces no configuration; a loss given alone that is neither a list
\* nor a tuple is stored as the one-element list [loss]; a loss given as a list or
\* a tuple is stored unchanged.
C5_LossExclusiveAndNormalized ==
    /\ ctor.phase \in {"constructed", "error"} =>
          ({"loss", "loss_constructor"} \subseteq DOMAIN ctor.given <=> ctor.phase = "error")
    /\ ctor.phase = "error" =>
          /\ ctor.error = "ValueError: loss/loss_constructor"
          /\ ctor.paramMap = NoParams
    /\ (ctor.phase = "constructed" /\ "loss" \in DOMAIN ctor.given) =>
          LET loss == ctor.given["loss"]
              stored == GetOrDefault(ctor.paramMap, "loss")
          IN  /\ loss.kind \in {"list", "tuple"} => stored = loss
              /\ loss.kind \notin {"list", "tuple"} =>
                    stored = [kind |-> "list", name |-> "", items |-> <<loss>>]

C5_Witness ==
    /\ ctor.phase = "constructed"
    /\ DOMAIN ctor.given = {"loss"}
    /\ ctor.given["loss"] = PyScalar("mse")
    /\ GetOrDefault(ctor.paramMap, "loss") = PyList(<<PyScalar("mse")>>)

(***************************************************************************)
(* TorchModel and TorchModel._transform.                                   *)
(*                                                                         *)
(* Numbers are held in tenths (27 is 2.7).  A torch model is a linear map  *)
(* without bias, one weight vector per output; in training mode a dropout  *)
(* layer may zero an output, in evaluation mode it never does.             *)
(***************************************************************************)
Weights == {0, 27}
Features == {0, 1}
\* weights of a scalar output: 2.7, a tie 2.5, 2.2, 0 and a negative value
ScalarWeights == {-27, 0, 22, 25, 27}
WeightVecs == [1..VecShape -> Weights] \cup [1..1 -> ScalarWeights]
LabelChoices == {<<"y">>, <<"y", "z">>}
ColumnMetas == [spark_data_type : {"DenseVector", "SparseVector"}, shape : {VecShape}]
                 \cup [spark_data_type : {"IntegerType", "FloatType"}, shape : {1}]
Range(f) == {f[i] : i \in DOMAIN f}
Min(a, b) == IF a <= b THEN a ELSE b

\* estimator.py:297  col + '__output'
OutputCols(label_columns) == [j \in DOMAIN label_columns |-> label_columns[j] \o "__output"]

\* estimator.py:285-300  TorchModel.__init__
NewTorchModel(model, label_columns, metadata) ==
    [model |-> model, label_columns |-> label_columns,
     output_cols |-> IF label_columns # <<>> THEN OutputCols(label_columns) ELSE <<>>,
     feature_columns |-> <<"f">>, input_shapes |-> <<1>>, metadata |-> metadata]

TorchModelsFor(label_columns) ==
    UNION {{NewTorchModel([weights |-> ws, single |-> single, training |-> training],
                          label_columns, metadata) :
               ws \in {o \in [DOMAIN label_columns -> WeightVecs] :
                            \A j \in DOMAIN label_columns :
                               Len(o[j]) = metadata[label_columns[j]].shape},
               single \in IF Len(label_columns) = 1 THEN BOOLEAN ELSE {FALSE},
               training \in BOOLEAN} :
           metadata \in [Range(label_columns) -> ColumnMetas]}
TorchModels == UNION {TorchModelsFor(ls) : ls \in LabelChoices}

\* estimator.py:329  model.eval()
Eval_noop(model) == model
Eval(model) == [model EXCEPT !.training = FALSE]

\* estimator.py:352-355  model(*data): what the module returns, a tensor or a list of tensors
Forward(model, x, keep) ==
    [is_list |-> ~model.single,
     tensors |-> [j \in DOMAIN model.weights |->
                    [i \in DOMAIN model.weights[j] |-> IF keep THEN model.weights[j][i] * x ELSE 0]]]

\* estimator.py:356-357
AsList(preds) == preds.tensors

\* torch.Tensor.nonzero() of a 1-D tensor: one row [i] per nonzero entry, i from 0, increasing
NonzeroRows(t) ==
    LET nz == {i \in DOMAIN t : t[i] # 0}
        F[k \in 0..Len(t)] ==
            IF k = 0 THEN <<>>
            ELSE IF k \in nz THEN Append(F[k - 1], <<k - 1>>) ELSE F[k - 1]
    IN  F[Len(t)]

\* estimator.py:378  round(value), value in tenths: to the nearest integer, a tie to the even one
PyRound_trunc(t) == IF t >= 0 THEN t \div 10 ELSE -((-t) \div 10)
PyRound(t) ==
    LET q == t \div 10
        r == t % 10
    IN  IF r < 5 THEN q
        ELSE IF r > 5 THEN q + 1
        ELSE IF q % 2 = 0 THEN q ELSE q + 1

Field(type, size, indices, values) ==
    [type |-> type, size |-> size, indices |-> indices, values |-> values]
NoField == Field("", 0, <<>>, <<>>)

\* estimator.py:360-379  the output field of one label column
DecodeField(meta, pred) ==
    LET col_type == meta.spark_data_type
    IN  IF col_type = "DenseVector"
        THEN IF Len(pred) # meta.shape
             THEN [ok |-> FALSE, field |-> NoField]
             ELSE [ok |-> TRUE, field |-> Field("DenseVector", meta.shape, <<>>, pred)]
        ELSE IF col_type = "SparseVector"
        THEN IF Len(pred) # meta.shape
             THEN [ok |-> FALSE, field |-> NoField]
             ELSE LET rows == NonzeroRows(pred)
                  IN  IF rows = <<>>
                      THEN [ok |-> FALSE, field |-> NoField]
                      ELSE LET nonzero_indices == rows[1]
                           IN  [ok |-> TRUE,
                                field |-> Field("SparseVector", meta.shape, nonzero_indices,
                                                [k \in DOMAIN nonzero_indices |->
                                                    pred[nonzero_indices[k] + 1]])]
        ELSE IF Len(pred) # 1
        THEN [ok |-> FALSE, field |-> NoField]
        ELSE LET value == pred[1]
             IN  IF col_type = "IntegerType"
                 THEN [ok |-> TRUE, field |-> Field("int", 0, <<>>, <<PyRound(value)>>)]
                 ELSE [ok |-> TRUE, field |-> Field("float", 0, <<>>, <<value>>)]

\* estimator.py:348-383  one row of predict
PredictRow(model, t, row, keep) ==
    LET preds == AsList(Forward(model, row[t.feature_columns[1]], keep))
        n == Min(Len(t.label_columns), Min(Len(t.output_cols), Len(preds)))
        decoded == [j \in 1..n |-> DecodeField(t.metadata[t.label_columns[j]], preds[j])]
        added == {t.output_cols[j] : j \in 1..n}
        LastFor(c) == CHOOSE j \in 1..n : t.output_cols[j] = c /\ \A k \in (j + 1)..n : t.output_cols[k] # c
    IN  [ok |-> \A j \in 1..n : decoded[j].ok,
         fields |-> [c \in DOMAIN row \cup added |->
                        IF c \in added THEN decoded[LastFor(c)].field ELSE row[c]]]

NewPartition == [pc |-> "pending", model |-> None, next |-> 1, out |-> <<>>, decodes |-> 0]
NewTransform == [phase |-> "idle", begun |-> 0, serializations |-> 0, serialized_model |-> None]

\* row i of partition p
InputRow(p, i) == [c \in {"f", "id"} |-> IF c = "f" THEN (p + i) % 2 ELSE p * (MaxRows + 1) + i]
DataFrames ==
    {[p \in DOMAIN sizes |-> [i \in 1..sizes[p] |-> InputRow(p, i)]] :
        sizes \in UNION {[1..n -> 0..MaxRows] : n \in 0..MaxParts}}

\* tr.tm0 keeps the TorchModel as it was before the first transform
InitTransform ==
    /\ tm \in {t \in TorchModels : Len(t.label_columns) = 1}
    /\ df \in DataFrames
    /\ tr = [NewTransform EXCEPT !.phase = "idle"] @@ [tm0 |-> tm]
    /\ parts = <<>>
    /\ outs = <<>>
    /\ IdleFit /\ IdleCtor /\ IdlePersist

InitDecode ==
    /\ tm \in TorchModels
    /\ df \in {<<<<[c \in {"f", "id"} |-> IF c = "f" THEN x ELSE 1]>>>> : x \in Features}
    /\ tr = [NewTransform EXCEPT !.phase = "idle"] @@ [tm0 |-> tm]
    /\ parts = <<>>
    /\ outs = <<>>
    /\ IdleFit /\ IdleCtor /\ IdlePersist

\* estimator.py:328-339
Transform_Begin ==
    /\ tr.phase = "idle"
    /\ Len(outs) < MaxCalls
    /\ LET model_pre_predict == Eval(tm.model)
       IN  /\ tm' = [tm EXCEPT !.model = model_pre_predict]
           /\ tr' = [tr EXCEPT !.phase = "running", !.begun = @ + 1,
                               !.serializations = @ + 1,
                               !.serialized_model = Some(Serialize(model_pre_predict))]
    /\ parts' = [p \in DOMAIN df |-> NewPartition]
    /\ UNCHANGED <<df, outs, fitVars, ctorVars, persistVars>>

\* estimator.py:345  model = deserialize_fn(serialized_model), once per call of predict
Predict_Start(p) ==
    /\ tr.phase = "running"
    /\ parts[p].pc = "pending"
    /\ parts' = [parts EXCEPT ![p] =
                    [@ EXCEPT !.model = Some(Deserialize(Val(tr.serialized_model))),
                              !.decodes = @ + 1,
                              !.pc = IF df[p] = <<>> THEN "done" ELSE "running"]]
    /\ UNCHANGED <<tm, df, tr, outs, fitVars, ctorVars, persistVars>>

\* estimator.py:347-383
Predict_Row(p) ==
    /\ tr.phase = "running"
    /\ parts[p].pc = "running"
    /\ LET model == Val(parts[p].model)
           row == df[p][parts[p].next]
       IN  \E keep \in IF model.training THEN BOOLEAN ELSE {TRUE} :
              LET res == PredictRow(model, tm, row, keep)
              IN  parts' = [parts EXCEPT ![p] =
                      IF ~res.ok
                      THEN [@ EXCEPT !.pc = "failed"]
                      ELSE [@ EXCEPT !.out = Append(@, res.fields),
                                     !.next = @ + 1,
                                     !.pc = IF parts[p].next = Len(df[p]) THEN "done" ELSE "running"]]
    /\ UNCHANGED <<tm, df, tr, outs, fitVars, ctorVars, persistVars>>

\* estimator.py:385  df.rdd.mapPartitions(predict).toDF()
Transform_End ==
    /\ tr.phase = "running"
    /\ \/ /\ \A p \in DOMAIN parts : parts[p].pc = "done"
          /\ outs' = Append(outs, [ok |-> TRUE, rows |-> [p \in DOMAIN parts |-> parts[p].out]])
       \/ /\ \E p \in DOMAIN parts : parts[p].pc = "failed"
          /\ outs' = Append(outs, [ok |-> FALSE, rows |-> <<>>])
    /\ tr' = [tr EXCEPT !.phase = "idle"]
    /\ UNCHANGED <<tm, df, parts, fitVars, ctorVars, persistVars>>

NextTransform == \/ Transform_Begin
                 \/ \E p \in DOMAIN parts : Predict_Start(p)
                 \/ \E p \in DOMAIN parts : Predict_Row(p)
                 \/ Transform_End

SpecTransform == InitTransform /\ [][NextTransform]_vars
SpecDecode == InitDecode /\ [][NextTransform]_vars

(***************************************************************************)
(* Properties of transform.                                                *)
(***************************************************************************)
\* the prediction of the evaluation-mode model for a row: weights times the feature
Prediction(j, row) == [k \in DOMAIN tm.model.weights[j] |-> tm.model.weights[j][k] * row["f"]]
\* the positions (from 0) of all nonzero entries, increasing
AllNonzero(pred) ==
    LET nz == {k - 1 : k \in {i \in DOMAIN pred : pred[i] # 0}}
    IN  CHOOSE s \in [1..Cardinality(nz) -> nz] :
           \A a, b \in DOMAIN s : a < b => s[a] < s[b]

\* C7: for a sparse-vector label column of shape n every prediction, with zero,
\* one or several nonzero entries, is decoded: the output field is a sparse vector
\* of size n whose indices are all nonzero positions of the prediction, increasing,
\* and whose values are the prediction's values there.
C7_SparseDecodeAllNonzero ==
    \A p \in DOMAIN parts :
       /\ parts[p].pc # "failed"
       /\ \A i \in DOMAIN parts[p].out :
          \A j \in DOMAIN tm.label_columns :
             tm.metadata[tm.label_columns[j]].spark_data_type = "SparseVector" =>
                LET pred == Prediction(j, df[p][i])
                    field == parts[p].out[i][tm.output_cols[j]]
                    all == AllNonzero(pred)
                IN  /\ field.type = "SparseVector"
                    /\ field.size = tm.metadata[tm.label_columns[j]].shape
                    /\ field.indices = all
                    /\ field.values = [k \in DOMAIN all |-> pred[all[k] + 1]]

\* C8: every transform emits, for every input row and in the input order of its
\* partition, one output row that keeps every original field with its value and
\* adds the field label_column + "__output" for each label column.
C8_OneOutputRowPerInputRow ==
    \A c \in DOMAIN outs :
       /\ outs[c].ok
       /\ DOMAIN outs[c].rows = DOMAIN df
       /\ \A p \in DOMAIN df :
             /\ Len(outs[c].rows[p]) = Len(df[p])
             /\ \A i \in DOMAIN df[p] :
                   LET o == outs[c].rows[p][i]
                       r == df[p][i]
                   IN  /\ DOMAIN o = DOMAIN r \cup {l \o "__output" : l \in Range(tm.label_columns)}
                       /\ \A f \in DOMAIN r : o[f] = r[f]

\* C9 as stated: two transforms of the same dataframe give the same output, and
\* transform leaves the TorchModel, its model included, as it was.
C9_TransformLeavesModelUnchanged ==
    /\ \A a, b \in DOMAIN outs : outs[a] = outs[b]
    /\ tm = tr.tm0

\* C9 amended: two transforms of the same dataframe give the same output under
\* every interleaving of the partitions; transform changes neither the model's
\* weights nor any field of the TorchModel, except that it switches the stored
\* model to evaluation mode; the model is serialized once per transform and
\* deserialized once per partition; a partition emits rows of its own input only.
C9_TransformIdempotentAndIsolated ==
    /\ \A a, b \in DOMAIN outs : outs[a] = outs[b]
    /\ tm.model.weights = tr.tm0.model.weights
    /\ [tm EXCEPT !.model.training = tr.tm0.model.training] = tr.tm0
    /\ tr.begun >= 1 => ~tm.model.training
    /\ tr.serializations = tr.begun
    /\ \A p \in DOMAIN parts :
          /\ parts[p].decodes = IF parts[p].pc = "pending" THEN 0 ELSE 1
          /\ parts[p].model # None => Val(parts[p].model) = tm.model
          /\ \A i \in DOMAIN parts[p].out : parts[p].out[i]["id"] = df[p][i]["id"]

C9_Witness ==
    /\ Len(outs) = 2
    /\ outs[1].ok
    /\ Len(df) = 2 /\ Len(df[1]) = 2 /\ Len(df[2]) = 2
    /\ tr.tm0.model.training
    /\ ~tm.model.training

(***************************************************************************)
(* Writing and reading the parameters of an estimator or a model.          *)
(***************************************************************************)
ParamNames == {"backend", "store", "model", "optimizer", "run_id"}
ParamValues == {"v1", "v2"}
ParamMaps == [ParamNames -> {None} \cup {Some(v) : v \in ParamValues}]

\* estimator.py:41-50
TorchParamSerialize_all(param_name, param_val) ==
    IF param_val = None THEN None ELSE Some(DumpsBase64(Val(param_val)))
TorchParamSerialize(param_name, param_val) ==
    IF param_name \in {"backend", "store"}
    THEN None
    ELSE IF param_val = None
    THEN None
    ELSE Some(DumpsBase64(Val(param_val)))

\* estimator.py:66-73
DeserializeDict(dict_values) ==
    [key \in DOMAIN dict_values |->
        IF dict_values[key] = None THEN None ELSE Some(LoadsBase64(Val(dict_values[key])))]

InitPersist == /\ inst \in ParamMaps
               /\ written = None
               /\ readBack = None
               /\ IdleFit /\ IdleCtor /\ IdleTransform

\* estimator.py:53-57  saveImpl: every parameter through param_serializer_fn
Persist_Write ==
    /\ written = None
    /\ written' = Some([name \in DOMAIN inst |-> TorchParamSerialize(name, inst[name])])
    /\ UNCHANGED <<inst, readBack, fitVars, ctorVars, transformVars>>

\* estimator.py:65-73  the reader on the written record
Persist_Read ==
    /\ written # None
    /\ readBack = None
    /\ readBack' = Some(DeserializeDict(Val(written)))
    /\ UNCHANGED <<inst, written, fitVars, ctorVars, transformVars>>

NextPersist == Persist_Write \/ Persist_Read

SpecPersist == InitPersist /\ [][NextPersist]_vars

\* C10: backend and store are written as null whatever their values; every other
\* parameter is written as null when null and as its base64 encoding otherwise;
\* reading maps null to null and decodes the rest, so every parameter except
\* backend and store reads back equal and backend and store read back null.
C10_PersistedParams ==
    /\ written # None =>
          \A name \in ParamNames :
             Val(written)[name] =
                IF name \in {"backend", "store"} \/ inst[name] = None
                THEN None
                ELSE Some([b64 |-> Val(inst[name])])
    /\ readBack # None =>
          \A name \in ParamNames :
             Val(readBack)[name] = IF name \in {"backend", "store"} THEN None ELSE inst[name]

C10_Witness ==
    /\ readBack # None
    /\ inst["backend"] # None /\ inst["store"] # None
    /\ inst["model"] # None /\ inst["optimizer"] = None
    /\ Val(readBack)["model"] = inst["model"]
    /\ Val(readBack)["backend"] = None

\* C11: for a scalar label column the output field is the prediction's value cast
\* to the declared type: for an integral type it is an integer nearest to the
\* value (2.7 gives 3, -2.7 gives -3: rounded, not truncated toward zero), for a
\* non-integral type it is the value itself, unrounded.
C11_ScalarDecodeRounds ==
    \A p \in DOMAIN parts :
       \A i \in DOMAIN parts[p].out :
          \A j \in DOMAIN tm.label_columns :
             LET col_type == tm.metadata[tm.label_columns[j]].spark_data_type
                 value == Prediction(j, df[p][i])[1]
                 field == parts[p].out[i][tm.output_cols[j]]
             IN  /\ col_type = "IntegerType" =>
                       /\ field.type = "int"
                       /\ Len(field.values) = 1
                       /\ 10 * field.values[1] - value \in -5..5
                       /\ value = 27 => field.values[1] = 3
                       /\ value = -27 => field.values[1] = -3
                 /\ col_type = "FloatType" =>
                       /\ field.type = "float"
                       /\ field.values = <<value>>

C11_Witness ==
    /\ Len(outs) >= 1 /\ outs[1].ok
    /\ tm.label_columns = <<"y">>
    /\ tm.metadata["y"].spark_data_type = "IntegerType"
    /\ tm.model.weights = <<<<27>>>>
    /\ outs[1].rows[1][1]["f"] = 1
    /\ outs[1].rows[1][1]["y__output"].values = <<3>>

\* C12: fit_on_parquet resolves the backend as fit does: when num_proc and backend
\* are both set or both unset it fails with the configuration error and calls
\* nothing further; it never fails by invoking run on a null backend; and with only
\* num_proc set the backend it goes on with is the default backend of num_proc
\* processes.
C12_FitOnParquetResolvesBackend ==
    fit.entry = "fit_on_parquet" =>
       /\ BackendConflict(est.num_proc, est.backend) =>
              /\ fit.pc = "Failed"
              /\ fit.error = "ValueError: num_proc/backend"
              /\ ~Called("backend.run")
       /\ fit.error # "AttributeError"
       /\ (est.backend = None /\ est.num_proc # None /\ fit.pc # "Failed") =>
              fit.backend = Some(SparkBackend(Val(est.num_proc)))

\* C13: once constructed, and after any sequence of setLoss, setParams and
\* copy-with-overrides, at most one of loss and loss_constructor is non-null.
C13_AtMostOneLossSpec ==
    ctor.phase \in {"constructed", "modified"} =>
       ~(/\ GetOrDefault(ctor.paramMap, "loss") # PyNone
         /\ GetOrDefault(ctor.paramMap, "loss_constructor") # PyNone)

==============================================================================
